---- MODULE Spec2Model ----
(***************************************************************************)
(* Identity provisioning and metadata recovery of age-plugin-yubikey:      *)
(*   builder.rs  IdentityBuilder::build                                    *)
(*   util.rs     ui_to_slot, slot_to_ui, extract_name, Metadata::extract   *)
(* Five specifications share the module:                                   *)
(*   Spec         the builder driving one token, command by command        *)
(*   SpecSeq      builds without force, one after the other on one token   *)
(*   SpecRace     a build and a second provisioning attempt on one token   *)
(*   SpecExtract  Metadata::extract applied to bounded certificates        *)
(*   SpecMapper   ui_to_slot / slot_to_ui applied to every u8 and slot     *)
(***************************************************************************)
EXTENDS Integers, Sequences, FiniteSets, TLC

VARIABLES
    \* ---- slot mapper (util.rs:15-26)
    overflow_checks,  \* build profile: are arithmetic overflow checks compiled in
    ui_in,            \* the u8 handed to ui_to_slot
    slot_in,          \* the RetiredSlotId handed to slot_to_ui
    ui_src,           \* Some(s) when ui_in is the value slot_to_ui(s) returned
    mapper_out,       \* the last mapper call and what it returned
    \* ---- Metadata::extract (util.rs:112-184)
    xcert,            \* the certificate handed to extract
    xall,             \* the flag `all`
    xattest,          \* what the token answers to an attestation query
    xwhere,           \* the serial of the token and the slot of the certificate
    xout,             \* the last extract call: its result and the commands issued
    \* ---- IdentityBuilder::build (builder.rs:61-162)
    token,            \* the token: its serial and the contents of its slots
    builder,          \* `self`: the IdentityBuilder build is called on
    pc,               \* the statement of build about to run
    b_slot,           \* the local `slot` of build
    b_generated,      \* the local `generated`, the public key of the new key
    trace,            \* the token commands build has issued and the messages
                      \* and prompts it has shown, in order
    result,           \* what build returned
    nbuilds,          \* how many builds on this token came before this one
    \* ---- history of the token, kept to state what build leaves alone
    token0,           \* the token as it was when this build was called
    kept0,            \* per slot, its contents when a build first found it
                      \* listed by the token
    rival             \* the second provisioning attempt on the same token,
                      \* once it has run

mapperVars == <<overflow_checks, ui_in, slot_in, ui_src, mapper_out>>
extractVars == <<xcert, xall, xattest, xwhere, xout>>
histVars == <<nbuilds, token0, kept0, rival>>
buildVars == <<token, builder, pc, b_slot, b_generated, trace, result, histVars>>
vars == <<mapperVars, extractVars, buildVars>>

-----------------------------------------------------------------------------
\* Bounds of the model.
NumSlots == 3       \* length of the usable-slot list
MaxByte == 4        \* extension bytes range over 0..MaxByte
MaxValLen == 3      \* extension values have up to MaxValLen bytes
MaxBuilds == 2      \* builds run one after the other on one token

\* Width of the types the code computes in.
U8Modulus == 256        \* u8
UsizeModulus == 65536   \* usize: at least 16 bits on every target; a wider
                        \* usize gives the same outcomes, the wrapped index
                        \* being far beyond the list either way

None == [tag |-> "None"]
Some(x) == [tag |-> "Some", val |-> x]
Ok(x) == [tag |-> "Ok", val |-> x]
Err(e) == [tag |-> "Err", err |-> e]
Panic == [tag |-> "Panic"]

\* RetiredSlotId: the i-th retired slot of the token's catalog.
RetiredSlotId(i) == <<"R", i>>

\* crate::USABLE_SLOTS, the fixed ordered usable-slot list.
USABLE_SLOTS == [i \in 1..NumSlots |-> RetiredSlotId(i)]

Slots == {USABLE_SLOTS[i] : i \in 1..NumSlots}

-----------------------------------------------------------------------------
\* Slot mapper.

\* slice::get(index): None beyond the end.
Get(list, index) ==
    IF index < Len(list) THEN Some(list[index + 1]) ELSE None

\* Iterator::position: the 0-based index of the first match.
Position(list, s) ==
    IF \E i \in 1..Len(list) : list[i] = s
    THEN Some((CHOOSE i \in 1..Len(list) :
                 list[i] = s /\ \A j \in 1..(i - 1) : list[j] # s) - 1)
    ELSE None

\* ui_to_slot.  `slot as usize - 1` panics on underflow when overflow checks
\* are compiled in, and wraps otherwise.
ui_to_slot(checks, slot) ==
    IF slot = 0 /\ checks THEN Panic
    ELSE LET index == (slot - 1) % UsizeModulus
             got == Get(USABLE_SLOTS, index)
         IN IF got.tag = "Some" THEN Ok(got.val)
            ELSE Err([kind |-> "InvalidSlot", n |-> slot])

\* Faulty variant: the 0-based position is returned as it is.
slot_to_ui_ZeroBased(checks, slot) ==
    LET pos == Position(USABLE_SLOTS, slot)
    IN IF pos.tag = "None" THEN Panic ELSE Ok(pos.val % U8Modulus)

slot_to_ui(checks, slot) ==
    LET pos == Position(USABLE_SLOTS, slot)
    IN IF pos.tag = "None" THEN Panic
       ELSE LET p == pos.val % U8Modulus
            IN IF p + 1 >= U8Modulus
               THEN (IF checks THEN Panic ELSE Ok((p + 1) % U8Modulus))
               ELSE Ok(p + 1)

-----------------------------------------------------------------------------
\* Certificates and the policy extension.

\* Strings are sequences of pieces, so that formatting is concatenation.
BINARY_NAME == <<"age-plugin-yubikey">>

POLICY_EXTENSION_OID == <<1, 3, 6, 1, 4, 1, 41482, 3, 8>>

\* An object identifier other than the policy extension's (basicConstraints).
OtherOid == <<2, 5, 29, 19>>

PinPolicies == {"Never", "Once", "Always"}
TouchPolicies == {"Never", "Always", "Cached"}

\* u8::from(PinPolicy), u8::from(TouchPolicy): the bytes the builder embeds.
PinPolicyByte(p) ==
    CASE p = "Never" -> 1 [] p = "Once" -> 2 [] p = "Always" -> 3

\* Faulty variant: the touch codes in the order of the pin codes.
TouchPolicyByte_Parallel(t) ==
    CASE t = "Never" -> 1 [] t = "Cached" -> 2 [] t = "Always" -> 3

TouchPolicyByte(t) ==
    CASE t = "Never" -> 1 [] t = "Always" -> 2 [] t = "Cached" -> 3

\* The extension list the builder hands to generate_self_signed.
PolicyExtension(pin_policy, touch_policy) ==
    <<[oid |-> POLICY_EXTENSION_OID,
       value |-> <<PinPolicyByte(pin_policy), TouchPolicyByte(touch_policy)>>]>>

\* A subject attribute: its bytes are UTF-8 (as_str succeeds) or not.
Attr(str) == [utf8 |-> TRUE, str |-> str]
BadAttr == [utf8 |-> FALSE, str |-> <<>>]
as_str(a) == IF a.utf8 THEN Ok(a.str) ELSE Err("utf8")

\* A certificate as the token stores it: DER that parses, or bytes that do not.
X509(org, ou, cn, not_before, spki, exts) ==
    [der |-> "x509", org |-> org, ou |-> ou, cn |-> cn,
     not_before |-> not_before, spki |-> spki, exts |-> exts]
Garbage == [der |-> "garbage"]

parse_x509_certificate(c) == IF c.der = "x509" THEN Ok(c) ELSE Err("parse")

\* X509Name::to_string: the whole subject, attribute by attribute.
RECURSIVE AttrsToString(_, _)
AttrsToString(label, attrs) ==
    IF attrs = <<>> THEN <<>>
    ELSE <<label>> \o (IF Head(attrs).utf8 THEN Head(attrs).str ELSE <<"#">>)
         \o AttrsToString(label, Tail(attrs))

SubjectToString(c) ==
    AttrsToString("O=", c.org) \o AttrsToString("OU=", c.ou)
    \o AttrsToString("CN=", c.cn)

\* ASN1Time::to_rfc2822, or the placeholder when the date cannot be rendered.
Created(c) ==
    IF c.not_before = "valid" THEN <<"date">> ELSE <<"Invalid date: ", "e">>

\* Faulty variant: the first occurrence is taken, as get_extension would.
get_extension_first(c, oid) ==
    LET hits == SelectSeq(c.exts, LAMBDA e : e.oid = oid)
    IN IF Len(hits) >= 1 THEN Ok(Some(hits[1])) ELSE Ok(None)

\* TbsCertificate::get_extension_unique: Err when the oid occurs twice.
get_extension_unique(c, oid) ==
    LET hits == SelectSeq(c.exts, LAMBDA e : e.oid = oid)
    IN IF Len(hits) > 1 THEN Err("DuplicateExtensions")
       ELSE IF Len(hits) = 1 THEN Ok(Some(hits[1]))
       ELSE Ok(None)

DecodePin(b) ==
    CASE b = 1 -> Some("Never") [] b = 2 -> Some("Once")
      [] b = 3 -> Some("Always") [] OTHER -> None

DecodeTouch(b) ==
    CASE b = 1 -> Some("Never") [] b = 2 -> Some("Always")
      [] b = 3 -> Some("Cached") [] OTHER -> None

\* Faulty variant: an unknown code in either byte makes both policies unknown.
policies_AllOrNothing(c) ==
    LET got == get_extension_unique(c, POLICY_EXTENSION_OID)
        ext == IF got.tag = "Ok" THEN got.val ELSE None
        kept == IF ext.tag = "Some" /\ Len(ext.val.value) >= 2 THEN ext ELSE None
    IN IF /\ kept.tag = "Some"
          /\ DecodePin(kept.val.value[1]).tag = "Some"
          /\ DecodeTouch(kept.val.value[2]).tag = "Some"
       THEN <<DecodePin(kept.val.value[1]), DecodeTouch(kept.val.value[2])>>
       ELSE <<None, None>>

\* Faulty variant: the value must be two bytes long, no more.
policies_ExactlyTwo(c) ==
    LET got == get_extension_unique(c, POLICY_EXTENSION_OID)
        ext == IF got.tag = "Ok" THEN got.val ELSE None
        kept == IF ext.tag = "Some" /\ Len(ext.val.value) = 2 THEN ext ELSE None
    IN IF kept.tag = "Some"
       THEN <<DecodePin(kept.val.value[1]), DecodeTouch(kept.val.value[2])>>
       ELSE <<None, None>>

\* The closure `policies` of Metadata::extract.
policies(c) ==
    LET got == get_extension_unique(c, POLICY_EXTENSION_OID)
        ext == IF got.tag = "Ok" THEN got.val ELSE None
        kept == IF ext.tag = "Some" /\ Len(ext.val.value) >= 2 THEN ext ELSE None
    IN IF kept.tag = "Some"
       THEN <<DecodePin(kept.val.value[1]), DecodeTouch(kept.val.value[2])>>
       ELSE <<None, None>>

\* Faulty variant: the flag `all` is not looked at.
extract_name_IgnoreAll(cert, all) ==
    LET ours == /\ Len(cert.org) > 0
                /\ as_str(cert.org[1]) = Ok(BINARY_NAME)
    IN IF ours
       THEN LET cn == IF Len(cert.cn) > 0 /\ cert.cn[1].utf8
                      THEN cert.cn[1].str ELSE <<>>
            IN Some([name |-> cn, ours |-> TRUE])
       ELSE Some([name |-> SubjectToString(cert), ours |-> FALSE])

extract_name(cert, all) ==
    LET ours == /\ Len(cert.org) > 0
                /\ as_str(cert.org[1]) = Ok(BINARY_NAME)
    IN IF ours
       THEN LET cn == IF Len(cert.cn) > 0 /\ cert.cn[1].utf8
                      THEN cert.cn[1].str ELSE <<>>
            IN Some([name |-> cn, ours |-> TRUE])
       ELSE IF ~all THEN None
       ELSE Some([name |-> SubjectToString(cert), ours |-> FALSE])

\* Faulty variant: a foreign certificate's policies are decoded from its own
\* extension.
extract_OwnExtension(serial, slot, certificate, all, attest) ==
    LET parsed == parse_x509_certificate(certificate)
    IN IF parsed.tag = "Err" THEN [result |-> None, cmds |-> <<>>]
       ELSE
         LET cert == parsed.val
             named == extract_name(cert, all)
         IN IF named.tag = "None" THEN [result |-> None, cmds |-> <<>>]
            ELSE
              LET pol == policies(cert)
              IN [result |-> Some([serial |-> serial,
                                   slot |-> slot,
                                   name |-> named.val.name,
                                   created |-> Created(cert),
                                   pin_policy |-> pol[1],
                                   touch_policy |-> pol[2]]),
                  cmds |-> IF named.val.ours THEN <<>> ELSE <<"attest">>]

\* Faulty variant: the attestation is asked for before the issuer is looked at.
extract_AttestFirst(serial, slot, certificate, all, attest) ==
    LET parsed == parse_x509_certificate(certificate)
    IN IF parsed.tag = "Err" THEN [result |-> None, cmds |-> <<>>]
       ELSE
         LET cert == parsed.val
             named == extract_name(cert, all)
         IN IF named.tag = "None" THEN [result |-> None, cmds |-> <<>>]
            ELSE
              LET pol ==
                    IF named.val.ours THEN policies(cert)
                    ELSE IF attest.tag = "Ok"
                              /\ parse_x509_certificate(attest.val).tag = "Ok"
                         THEN policies(parse_x509_certificate(attest.val).val)
                         ELSE <<None, None>>
              IN [result |-> Some([serial |-> serial,
                                   slot |-> slot,
                                   name |-> named.val.name,
                                   created |-> Created(cert),
                                   pin_policy |-> pol[1],
                                   touch_policy |-> pol[2]]),
                  cmds |-> <<"attest">>]

\* Metadata::extract: the record returned and the token commands issued.
\* `attest` is what the token answers should the attestation be asked for.
extract(serial, slot, certificate, all, attest) ==
    LET parsed == parse_x509_certificate(certificate)
    IN IF parsed.tag = "Err" THEN [result |-> None, cmds |-> <<>>]
       ELSE
         LET cert == parsed.val
             named == extract_name(cert, all)
         IN IF named.tag = "None" THEN [result |-> None, cmds |-> <<>>]
            ELSE
              LET pol ==
                    IF named.val.ours THEN policies(cert)
                    ELSE IF attest.tag = "Ok"
                              /\ parse_x509_certificate(attest.val).tag = "Ok"
                         THEN policies(parse_x509_certificate(attest.val).val)
                         ELSE <<None, None>>
              IN [result |-> Some([serial |-> serial,
                                   slot |-> slot,
                                   name |-> named.val.name,
                                   created |-> Created(cert),
                                   pin_policy |-> pol[1],
                                   touch_policy |-> pol[2]]),
                  cmds |-> IF named.val.ours THEN <<>> ELSE <<"attest">>]

-----------------------------------------------------------------------------
\* The token.  A slot holds a key, a certificate, both or neither; the
\* certificate object is written apart from the key.

SlotId_Retired(slot) == <<"Retired", slot>>

EmptySlot == [key |-> None, cert |-> None]

\* yubikey::Key::list reads the certificate object of each slot: a slot is
\* listed when it holds a certificate.  The keys come in catalog order.
RECURSIVE ListFrom(_, _)
ListFrom(tok, i) ==
    IF i > NumSlots THEN <<>>
    ELSE (IF tok.slots[USABLE_SLOTS[i]].cert.tag = "Some"
          THEN <<[slot |-> SlotId_Retired(USABLE_SLOTS[i])]>> ELSE <<>>)
         \o ListFrom(tok, i + 1)

\* Faulty variant: a slot is listed when it holds a key.
Key_list_ByKey(tok) ==
    LET held == SelectSeq(USABLE_SLOTS, LAMBDA s : tok.slots[s].key.tag = "Some")
    IN [i \in 1..Len(held) |-> [slot |-> SlotId_Retired(held[i])]]

Key_list(tok) == ListFrom(tok, 1)

\* piv::generate: the slot's key is replaced; its certificate object is not
\* touched.
piv_generate(tok, slot, key) ==
    [tok EXCEPT !.slots[slot].key = Some(key)]

\* Faulty variant: the certificate is written to the first usable slot.
write_certificate_FirstSlot(tok, slot, cert) ==
    [tok EXCEPT !.slots[USABLE_SLOTS[1]].cert = Some(cert)]

\* Certificate::generate_self_signed writes the signed certificate to the slot.
write_certificate(tok, slot, cert) ==
    [tok EXCEPT !.slots[slot].cert = Some(cert)]

-----------------------------------------------------------------------------
\* IdentityBuilder.

DEFAULT_PIN_POLICY == "Once"
DEFAULT_TOUCH_POLICY == "Always"

IdentityBuilder_new(slot) ==
    [slot |-> slot, name |-> None, pin_policy |-> None,
     touch_policy |-> None, force |-> FALSE]

with_name(self, name) == [self EXCEPT !.name = name]
with_pin_policy(self, pin_policy) == [self EXCEPT !.pin_policy = pin_policy]
with_touch_policy(self, touch_policy) ==
    [self EXCEPT !.touch_policy = touch_policy]
with_force(self, force) == [self EXCEPT !.force = force]

unwrap_or(opt, default) == IF opt.tag = "Some" THEN opt.val ELSE default

\* Errors the build returns: the value of crate::Error and, for an error
\* passed on with `?`, the call it came from.
SlotIsNotEmpty(slot) == [kind |-> "SlotIsNotEmpty", slot |-> slot]
NoEmptySlots(serial) == [kind |-> "NoEmptySlots", serial |-> serial]
Propagated(from) == [kind |-> "Propagated", from |-> from]

\* keys.iter().any(|key| key.slot() == SlotId::Retired(slot))
AnyKeyIn(keys, slot) ==
    \E k \in 1..Len(keys) : keys[k].slot = SlotId_Retired(slot)

\* Faulty variant: the last empty slot is taken.
FindEmpty_Last(keys) ==
    LET free == {i \in 1..Len(USABLE_SLOTS) : ~AnyKeyIn(keys, USABLE_SLOTS[i])}
    IN IF free = {} THEN None
       ELSE Some(USABLE_SLOTS[CHOOSE i \in free : \A j \in free : i >= j])

\* USABLE_SLOTS.iter().find(|slot| no key is in slot)
FindEmpty(keys) ==
    LET free == {i \in 1..Len(USABLE_SLOTS) : ~AnyKeyIn(keys, USABLE_SLOTS[i])}
    IN IF free = {} THEN None
       ELSE Some(USABLE_SLOTS[CHOOSE i \in free : \A j \in free : i <= j])

\* Does the first step of build list the keys of the token.
ListsKeys(self) == self.slot.tag = "None" \/ ~self.force

\* Faulty variant: the slot is checked to be empty even when force is set.
allocate_NoForce(self, listing, serial) ==
    IF self.slot.tag = "Some"
    THEN IF listing.tag = "Err" THEN Err(Propagated("Key::list"))
         ELSE IF AnyKeyIn(listing.val, self.slot.val)
              THEN Err(SlotIsNotEmpty(self.slot.val))
              ELSE Ok(self.slot.val)
    ELSE IF listing.tag = "Err" THEN Err(Propagated("Key::list"))
         ELSE LET found == FindEmpty(listing.val)
              IN IF found.tag = "Some" THEN Ok(found.val)
                 ELSE Err(NoEmptySlots(serial))

\* Faulty variant: a requested slot is taken without looking at the listing.
allocate_NoCheck(self, listing, serial) ==
    IF self.slot.tag = "Some"
    THEN Ok(self.slot.val)
    ELSE IF listing.tag = "Err" THEN Err(Propagated("Key::list"))
         ELSE LET found == FindEmpty(listing.val)
              IN IF found.tag = "Some" THEN Ok(found.val)
                 ELSE Err(NoEmptySlots(serial))

\* The first statement of build: the slot, or the error build returns.
\* `listing` is what Key::list answers: Ok(keys) or Err.
allocate(self, listing, serial) ==
    IF self.slot.tag = "Some"
    THEN IF ~self.force
         THEN IF listing.tag = "Err" THEN Err(Propagated("Key::list"))
              ELSE IF AnyKeyIn(listing.val, self.slot.val)
                   THEN Err(SlotIsNotEmpty(self.slot.val))
                   ELSE Ok(self.slot.val)
         ELSE Ok(self.slot.val)
    ELSE IF listing.tag = "Err" THEN Err(Propagated("Key::list"))
         ELSE LET found == FindEmpty(listing.val)
              IN IF found.tag = "Some" THEN Ok(found.val)
                 ELSE Err(NoEmptySlots(serial))

\* Recipient::from_spki, Stub::new and the tag of a stub.
Recipient_from_spki(spki) == <<"recipient", spki>>
Tag(recipient) == <<"tag", recipient[2]>>
Stub_new(serial, slot, recipient) ==
    [serial |-> serial, slot |-> slot, tag |-> Tag(recipient)]
hex_encode(tag) == <<"hex", tag[2]>>

\* Faulty variant: the default name leaves the tag out.
ResolveName_NoTag(self, stub) ==
    unwrap_or(self.name, <<"age identity ">>)

\* The name: the caller's, or "age identity <hex of the tag>".
ResolveName(self, stub) ==
    unwrap_or(self.name, <<"age identity ">> \o hex_encode(stub.tag))

PKG_VERSION == <<"version">>

\* The certificate generate_self_signed is asked for.
SelfSigned(name, generated, pin_policy, touch_policy) ==
    X509(<<Attr(BINARY_NAME)>>, <<Attr(PKG_VERSION)>>, <<Attr(name)>>,
         "valid", generated, PolicyExtension(pin_policy, touch_policy))

-----------------------------------------------------------------------------
\* Metadata::extract applied to bounded certificates.

Serials == {<<"serial", 1>>, <<"serial", 2>>}

Bytes == 0..MaxByte

RECURSIVE ValuesOfLen(_)
ValuesOfLen(n) ==
    IF n = 0 THEN {<<>>}
    ELSE {Append(v, b) : v \in ValuesOfLen(n - 1), b \in Bytes}

\* Every extension value of up to MaxValLen bytes.
Values == UNION {ValuesOfLen(n) : n \in 0..MaxValLen}

PolicyExt(v) == [oid |-> POLICY_EXTENSION_OID, value |-> v]
OtherExt(v) == [oid |-> OtherOid, value |-> v]

\* A few values: empty, one byte, a valid pair, a pair of unknown codes.
FewValues == {<<>>, <<3>>, <<3, 1>>, <<0, 4>>}

\* Extension lists: no policy extension, one, one beside another extension,
\* two occurrences.
ExtLists ==
    {<<>>, <<OtherExt(<<2, 2>>)>>}
    \cup {<<PolicyExt(v)>> : v \in Values}
    \cup {<<OtherExt(<<2, 2>>), PolicyExt(v)>> : v \in Values}
    \cup {<<PolicyExt(v), PolicyExt(w)>> : v \in Values, w \in {<<2, 2>>}}

FewExtLists ==
    {<<>>} \cup {<<PolicyExt(v)>> : v \in FewValues}
    \cup {<<PolicyExt(<<2, 2>>), PolicyExt(<<2, 2>>)>>}

OurOrgs == {<<Attr(BINARY_NAME)>>, <<Attr(BINARY_NAME), Attr(<<"other">>)>>}
ForeignOrgs ==
    {<<>>, <<Attr(<<"other">>)>>, <<BadAttr>>,
     <<Attr(<<"other">>), Attr(BINARY_NAME)>>}
CommonNames == {<<>>, <<Attr(<<"alice">>)>>, <<BadAttr>>}
NotBefores == {"valid", "unrepresentable"}

\* Variables a specification does not use stay at these values.
IdleMapper ==
    /\ overflow_checks = FALSE
    /\ ui_in = 0
    /\ slot_in = USABLE_SLOTS[1]
    /\ ui_src = None
    /\ mapper_out = [fn |-> "none"]

IdleExtract ==
    /\ xcert = Garbage
    /\ xall = FALSE
    /\ xattest = Err("attest")
    /\ xwhere = [serial |-> <<"serial", 1>>, slot |-> USABLE_SLOTS[1]]
    /\ xout = [called |-> FALSE]

IdleBuild ==
    /\ token = [serial |-> <<"serial", 1>>, slots |-> [s \in Slots |-> EmptySlot]]
    /\ builder = IdentityBuilder_new(None)
    /\ pc = "idle"
    /\ b_slot = None
    /\ b_generated = None
    /\ trace = <<>>
    /\ result = [tag |-> "Pending"]
    /\ nbuilds = 0
    /\ token0 = token
    /\ kept0 = [s \in Slots |-> None]
    /\ rival = None

\* Self-issued certificates over every extension list.
ExtractOursInputs ==
    /\ xcert \in {X509(o, <<>>, <<Attr(<<"alice">>)>>, "valid", "k", e) :
                    o \in OurOrgs, e \in ExtLists}
    /\ xall \in BOOLEAN
    /\ xattest = Ok(X509(<<>>, <<>>, <<>>, "valid", "k", <<PolicyExt(<<1, 1>>)>>))
    /\ xwhere = [serial |-> <<"serial", 1>>, slot |-> USABLE_SLOTS[1]]

\* Every subject and place, with a few extension lists and attestation answers.
ExtractSubjectInputs ==
    /\ xcert \in {Garbage}
                 \cup {X509(o, <<>>, c, n, "k", e) : o \in OurOrgs \cup ForeignOrgs,
                         c \in CommonNames, n \in NotBefores, e \in FewExtLists}
    /\ xall \in BOOLEAN
    /\ xattest \in {Err("attest"), Ok(Garbage)}
                   \cup {Ok(X509(<<>>, <<>>, <<>>, "valid", "k", e)) : e \in FewExtLists}
    /\ xwhere \in [serial : Serials, slot : Slots]

\* Foreign certificates whose attestation carries every extension list.
ExtractAttestedInputs ==
    /\ xcert \in {X509(o, <<>>, <<Attr(<<"alice">>)>>, "valid", "k", e) :
                    o \in {<<>>, <<Attr(<<"other">>), Attr(BINARY_NAME)>>},
                    e \in {<<>>, <<PolicyExt(<<1, 1>>)>>}}
    /\ xall = TRUE
    /\ xattest \in {Ok(X509(<<>>, <<>>, <<>>, "valid", "k", e)) : e \in ExtLists}
    /\ xwhere = [serial |-> <<"serial", 2>>, slot |-> USABLE_SLOTS[NumSlots]]

InitExtract ==
    /\ xout = [called |-> FALSE]
    /\ \/ ExtractOursInputs
       \/ ExtractSubjectInputs
       \/ ExtractAttestedInputs
    /\ IdleMapper
    /\ IdleBuild

\* One call of Metadata::extract.
CallExtract ==
    /\ LET r == extract(xwhere.serial, xwhere.slot, xcert, xall, xattest)
       IN xout' = [called |-> TRUE, result |-> r.result, cmds |-> r.cmds]
    /\ UNCHANGED <<xcert, xall, xattest, xwhere>>

NextExtract == CallExtract /\ UNCHANGED <<mapperVars, buildVars>>

-----------------------------------------------------------------------------
\* The slot mapper applied to every u8 and every usable slot.

InitMapper ==
    /\ overflow_checks \in BOOLEAN
    /\ ui_in \in 0..(U8Modulus - 1)
    /\ slot_in \in Slots
    /\ ui_src = None
    /\ mapper_out = [fn |-> "none"]
    /\ IdleExtract
    /\ IdleBuild

CallUiToSlot ==
    /\ mapper_out' = [fn |-> "ui_to_slot", arg |-> ui_in, src |-> ui_src,
                      res |-> ui_to_slot(overflow_checks, ui_in)]
    /\ UNCHANGED <<overflow_checks, ui_in, slot_in, ui_src>>

\* slot_to_ui, its result handed on as the next input of ui_to_slot.
CallSlotToUi ==
    /\ LET r == slot_to_ui(overflow_checks, slot_in)
       IN /\ mapper_out' = [fn |-> "slot_to_ui", arg |-> slot_in, res |-> r]
          /\ ui_in' = IF r.tag = "Ok" THEN r.val ELSE ui_in
          /\ ui_src' = IF r.tag = "Ok" THEN Some(slot_in) ELSE ui_src
    /\ UNCHANGED <<overflow_checks, slot_in>>

NextMapper ==
    \/ CallUiToSlot /\ UNCHANGED <<extractVars, buildVars>>
    \/ CallSlotToUi /\ UNCHANGED <<extractVars, buildVars>>

-----------------------------------------------------------------------------
\* IdentityBuilder::build, one action per exchange with the token or the user.

\* What a slot of the token may hold when build is called: nothing, a key
\* whose certificate was never written (a build that failed after
\* generating it), or a key with its certificate.
OldKey(i) == [id |-> ToString(i), pin_policy |-> "Once", touch_policy |-> "Always"]

SlotContents(i) ==
    {EmptySlot,
     [key |-> Some(OldKey(i)), cert |-> None],
     [key |-> Some(OldKey(i)),
      cert |-> Some(SelfSigned(<<"old">>, ToString(i), "Once", "Always"))]}

Tokens ==
    {[serial |-> n, slots |-> [s \in Slots |-> c[Position(USABLE_SLOTS, s).val + 1]]] :
       n \in Serials,
       c \in {f \in [1..NumSlots -> UNION {SlotContents(i) : i \in 1..NumSlots}] :
                \A i \in 1..NumSlots : f[i] \in SlotContents(i)}}

Option(S) == {None} \cup {Some(x) : x \in S}

Names == {<<"bob">>}

Builders ==
    {with_force(with_touch_policy(with_pin_policy(with_name(
        IdentityBuilder_new(s), n), p), t), f) :
       s \in Option(Slots), n \in Option(Names), p \in Option(PinPolicies),
       t \in Option(TouchPolicies), f \in BOOLEAN}

\* The slots a build finds listed, with what they hold, added to those
\* found listed by the builds before it.
Keep(before, tok) ==
    [s \in Slots |->
       IF before[s].tag = "None" /\ AnyKeyIn(Key_list(tok), s)
       THEN Some(tok.slots[s]) ELSE before[s]]

\* The key a build generates; the builds on one token generate different keys.
NewKeyId(n) == IF n = 0 THEN "new" ELSE ToString(<<"new", n>>)

Init ==
    /\ token \in Tokens
    /\ builder \in Builders
    /\ pc = "allocate"
    /\ b_slot = None
    /\ b_generated = None
    /\ trace = <<>>
    /\ result = [tag |-> "Pending"]
    /\ nbuilds = 0
    /\ token0 = token
    /\ kept0 = Keep([s \in Slots |-> None], token)
    /\ rival = None
    /\ IdleMapper
    /\ IdleExtract

resolved_pin == unwrap_or(builder.pin_policy, DEFAULT_PIN_POLICY)
resolved_touch == unwrap_or(builder.touch_policy, DEFAULT_TOUCH_POLICY)

\* An entry of the trace: a command sent to the token, or a message or
\* prompt shown to the user, and whether it succeeded.
TokenCmd(name, at, ok) == [to |-> "token", cmd |-> name, slot |-> at, ok |-> ok]
UserMsg(name, ok) == [to |-> "user", cmd |-> name, slot |-> None, ok |-> ok]

Return(r) ==
    /\ result' = r
    /\ pc' = "done"

\* builder.rs:132-136: the request to touch the token.
TouchNotice ==
    IF resolved_touch = "Never" THEN <<>>
    ELSE <<UserMsg("builder-touch-yk", TRUE)>>

\* Faulty variant: the PIN is never asked for again.
AfterGenerate_NoPin(pin) == "certify"

\* builder.rs:121: where build goes once the key is generated.
AfterGenerate(pin) == IF pin = "Always" THEN "prompt_pin" ELSE "certify"

\* The token commands of the trace.
TokenCmds == SelectSeq(trace, LAMBDA e : e.to = "token")

\* Faulty variant: the management key is unlocked before the slot is chosen.
Allocate_UnlockFirst ==
    /\ pc = "allocate"
    /\ \E listing \in {Ok(Key_list(token)), Err("token")} :
         LET r == allocate(builder, listing, token.serial)
             listed == <<TokenCmd("key::manage", None, TRUE)>>
                       \o (IF ListsKeys(builder)
                           THEN <<TokenCmd("Key::list", None, listing.tag = "Ok")>>
                           ELSE <<>>)
         IN IF r.tag = "Ok"
            THEN /\ b_slot' = Some(r.val)
                 /\ trace' = trace \o listed
                             \o <<UserMsg("builder-gen-key", TRUE)>>
                 /\ pc' = "manage"
                 /\ UNCHANGED result
            ELSE /\ Return(r)
                 /\ trace' = trace \o listed
                 /\ UNCHANGED b_slot
    /\ UNCHANGED <<token, builder, b_generated>>

\* builder.rs:62-91: the slot is chosen, from the keys the token lists.
Allocate ==
    /\ pc = "allocate"
    /\ \E listing \in {Ok(Key_list(token)), Err("token")} :
         LET r == allocate(builder, listing, token.serial)
             listed == IF ListsKeys(builder)
                       THEN <<TokenCmd("Key::list", None, listing.tag = "Ok")>>
                       ELSE <<>>
         IN IF r.tag = "Ok"
            THEN /\ b_slot' = Some(r.val)
                 /\ trace' = trace \o listed
                             \o <<UserMsg("builder-gen-key", TRUE)>>
                 /\ pc' = "manage"
                 /\ UNCHANGED result
            ELSE /\ Return(r)
                 /\ trace' = trace \o listed
                 /\ UNCHANGED b_slot
    /\ UNCHANGED <<token, builder, b_generated>>

\* Faulty variant: a failure of key::manage is dropped and build goes on.
Manage_IgnoreFailure ==
    /\ pc = "manage"
    /\ \E ok \in BOOLEAN :
         /\ trace' = Append(trace, TokenCmd("key::manage", None, ok))
         /\ pc' = "generate"
         /\ UNCHANGED result
    /\ UNCHANGED <<token, builder, b_slot, b_generated>>

\* builder.rs:96: key::manage unlocks the management key, or fails.
Manage ==
    /\ pc = "manage"
    /\ \E ok \in BOOLEAN :
         /\ trace' = Append(trace, TokenCmd("key::manage", None, ok))
         /\ IF ok THEN pc' = "generate" /\ UNCHANGED result
            ELSE Return(Err(Propagated("key::manage")))
    /\ UNCHANGED <<token, builder, b_slot, b_generated>>

\* builder.rs:99-119 (and 132-136 when no PIN is asked for): the key is
\* generated in the slot.  The token answers with a valid public key, so
\* Recipient::from_spki does not fail.
Generate ==
    /\ pc = "generate"
    /\ \E ok \in BOOLEAN :
         IF ok
         THEN /\ token' = piv_generate(token, b_slot.val,
                            [id |-> NewKeyId(nbuilds), pin_policy |-> resolved_pin,
                             touch_policy |-> resolved_touch])
              /\ b_generated' = Some(NewKeyId(nbuilds))
              /\ trace' = trace
                     \o <<TokenCmd("piv::generate", b_slot, TRUE),
                          UserMsg("builder-gen-cert", TRUE)>>
                     \o (IF AfterGenerate(resolved_pin) = "certify"
                         THEN TouchNotice ELSE <<>>)
              /\ pc' = AfterGenerate(resolved_pin)
              /\ UNCHANGED result
         ELSE /\ Return(Err(Propagated("piv::generate")))
              /\ trace' = Append(trace, TokenCmd("piv::generate", b_slot, FALSE))
              /\ UNCHANGED <<token, b_generated>>
    /\ UNCHANGED <<builder, b_slot>>

\* builder.rs:123-129: the user is asked for the PIN again.
PromptPin ==
    /\ pc = "prompt_pin"
    /\ \E ok \in BOOLEAN :
         /\ trace' = Append(trace, UserMsg("plugin-enter-pin", ok))
         /\ IF ok THEN pc' = "verify_pin" /\ UNCHANGED result
            ELSE Return(Err(Propagated("Password::interact")))
    /\ UNCHANGED <<token, builder, b_slot, b_generated>>

\* Faulty variant: the answer of verify_pin is dropped and build goes on.
VerifyPin_IgnoreFailure ==
    /\ pc = "verify_pin"
    /\ \E ok \in BOOLEAN :
         /\ trace' = Append(trace, TokenCmd("verify_pin", None, ok))
                      \o TouchNotice
         /\ pc' = "certify"
         /\ UNCHANGED result
    /\ UNCHANGED <<token, builder, b_slot, b_generated>>

\* builder.rs:130-136: the PIN is verified by the token.
VerifyPin ==
    /\ pc = "verify_pin"
    /\ \E ok \in BOOLEAN :
         IF ok
         THEN /\ trace' = Append(trace, TokenCmd("verify_pin", None, TRUE))
                          \o TouchNotice
              /\ pc' = "certify"
              /\ UNCHANGED result
         ELSE /\ trace' = Append(trace, TokenCmd("verify_pin", None, FALSE))
              /\ Return(Err(Propagated("verify_pin")))
    /\ UNCHANGED <<token, builder, b_slot, b_generated>>

\* builder.rs:138-161: the certificate is signed and written, the metadata
\* read back from it, and the identity returned.
Certify ==
    /\ pc = "certify"
    /\ \E ok \in BOOLEAN :
         /\ IF ok
            THEN LET recipient == Recipient_from_spki(b_generated.val)
                     stub == Stub_new(token.serial, b_slot.val, recipient)
                     name == ResolveName(builder, stub)
                     cert == SelfSigned(name, b_generated.val, resolved_pin,
                                        resolved_touch)
                     got == extract(token.serial, b_slot.val, cert, FALSE,
                                    Err("attest"))
                 IN /\ token' = write_certificate(token, b_slot.val, cert)
                    /\ trace' = Append(trace, TokenCmd("generate_self_signed",
                                                       b_slot, TRUE))
                                \o [i \in 1..Len(got.cmds) |->
                                      TokenCmd(got.cmds[i], b_slot, FALSE)]
                    /\ Return(IF got.result.tag = "None" THEN Panic
                              ELSE Ok([stub |-> stub, recipient |-> recipient,
                                       metadata |-> got.result.val]))
            ELSE /\ Return(Err(Propagated("generate_self_signed")))
                 /\ trace' = Append(trace, TokenCmd("generate_self_signed",
                                                    b_slot, FALSE))
                 /\ UNCHANGED token
    /\ UNCHANGED <<builder, b_slot, b_generated>>

Next ==
    \/ Allocate /\ UNCHANGED <<mapperVars, extractVars, histVars>>
    \/ Manage /\ UNCHANGED <<mapperVars, extractVars, histVars>>
    \/ Generate /\ UNCHANGED <<mapperVars, extractVars, histVars>>
    \/ PromptPin /\ UNCHANGED <<mapperVars, extractVars, histVars>>
    \/ VerifyPin /\ UNCHANGED <<mapperVars, extractVars, histVars>>
    \/ Certify /\ UNCHANGED <<mapperVars, extractVars, histVars>>

Spec == Init /\ [][Next]_vars
SpecMapper == InitMapper /\ [][NextMapper]_vars
SpecExtract == InitExtract /\ [][NextExtract]_vars

-----------------------------------------------------------------------------
\* Two provisioning attempts on one token.  The second attempt is a build
\* without force and with the default policies and name, whose steps all
\* succeed; it runs from its first statement to its last between two
\* statements of the first.

RaceBuilders ==
    {with_pin_policy(IdentityBuilder_new(s), p) :
       s \in Option(Slots), p \in {None, Some("Always")}}

InitRace ==
    /\ token \in Tokens
    /\ builder \in RaceBuilders
    /\ pc = "allocate"
    /\ b_slot = None
    /\ b_generated = None
    /\ trace = <<>>
    /\ result = [tag |-> "Pending"]
    /\ nbuilds = 0
    /\ token0 = token
    /\ kept0 = Keep([s \in Slots |-> None], token)
    /\ rival = None
    /\ IdleMapper
    /\ IdleExtract

\* builder.rs:61-162, run by the second attempt: the slot is allocated from
\* what the token lists now, the key generated and the certificate written.
\* piv::generate is sent the slot, the algorithm and the policies, and
\* nothing that tells a forced build from another (builder.rs:99-105).
RivalBuild ==
    /\ rival = None
    /\ \E want \in Option(Slots) :
         LET other == IdentityBuilder_new(want)
             r == allocate(other, Ok(Key_list(token)), token.serial)
         IN IF r.tag = "Ok"
            THEN LET key == [id |-> "rival",
                             pin_policy |-> DEFAULT_PIN_POLICY,
                             touch_policy |-> DEFAULT_TOUCH_POLICY]
                     stub == Stub_new(token.serial, r.val,
                                      Recipient_from_spki(key.id))
                     cert == SelfSigned(ResolveName(other, stub), key.id,
                                        DEFAULT_PIN_POLICY,
                                        DEFAULT_TOUCH_POLICY)
                 IN /\ token' = write_certificate(
                                   piv_generate(token, r.val, key), r.val, cert)
                    /\ rival' = Some([at |-> pc, result |-> Ok(r.val)])
            ELSE /\ rival' = Some([at |-> pc, result |-> r])
                 /\ UNCHANGED token
    /\ UNCHANGED <<builder, pc, b_slot, b_generated, trace, result,
                   nbuilds, token0, kept0>>

NextRace ==
    \/ Allocate /\ UNCHANGED <<mapperVars, extractVars, histVars>>
    \/ Manage /\ UNCHANGED <<mapperVars, extractVars, histVars>>
    \/ Generate /\ UNCHANGED <<mapperVars, extractVars, histVars>>
    \/ PromptPin /\ UNCHANGED <<mapperVars, extractVars, histVars>>
    \/ VerifyPin /\ UNCHANGED <<mapperVars, extractVars, histVars>>
    \/ Certify /\ UNCHANGED <<mapperVars, extractVars, histVars>>
    \/ RivalBuild /\ UNCHANGED <<mapperVars, extractVars>>

SpecRace == InitRace /\ [][NextRace]_vars

-----------------------------------------------------------------------------
\* Builds without force on one token, one after the other: a build starts
\* when the one before it has returned.

InitSeq ==
    /\ token \in {t \in Tokens : t.serial = <<"serial", 1>>}
    /\ builder \in RaceBuilders
    /\ pc = "allocate"
    /\ b_slot = None
    /\ b_generated = None
    /\ trace = <<>>
    /\ result = [tag |-> "Pending"]
    /\ nbuilds = 0
    /\ token0 = token
    /\ kept0 = Keep([s \in Slots |-> None], token)
    /\ rival = None
    /\ IdleMapper
    /\ IdleExtract

\* builder.rs:22-61: the next builder is made and build called on it.
NextBuild ==
    /\ pc = "done"
    /\ nbuilds + 1 < MaxBuilds
    /\ builder' \in RaceBuilders
    /\ pc' = "allocate"
    /\ b_slot' = None
    /\ b_generated' = None
    /\ trace' = <<>>
    /\ result' = [tag |-> "Pending"]
    /\ nbuilds' = nbuilds + 1
    /\ token0' = token
    /\ kept0' = Keep(kept0, token)
    /\ UNCHANGED <<token, rival>>

NextSeq ==
    \/ Allocate /\ UNCHANGED <<mapperVars, extractVars, histVars>>
    \/ Manage /\ UNCHANGED <<mapperVars, extractVars, histVars>>
    \/ Generate /\ UNCHANGED <<mapperVars, extractVars, histVars>>
    \/ PromptPin /\ UNCHANGED <<mapperVars, extractVars, histVars>>
    \/ VerifyPin /\ UNCHANGED <<mapperVars, extractVars, histVars>>
    \/ Certify /\ UNCHANGED <<mapperVars, extractVars, histVars>>
    \/ NextBuild /\ UNCHANGED <<mapperVars, extractVars>>

SpecSeq == InitSeq /\ [][NextSeq]_vars

-----------------------------------------------------------------------------
\* Properties.

\* C1: with no requested slot, once the token has listed its keys, the slot
\* chosen is the first slot of USABLE_SLOTS that the listing does not hold;
\* when the listing holds every usable slot, build has returned NoEmptySlots
\* with the serial of the token.
C1_AutoAllocation ==
    (/\ builder.slot.tag = "None"
     /\ pc # "allocate"
     /\ Len(TokenCmds) = 1
     /\ TokenCmds[1].ok)
    => LET free == {i \in 1..NumSlots :
                      token.slots[USABLE_SLOTS[i]].cert.tag = "None"}
       IN IF free = {}
          THEN /\ pc = "done"
               /\ result.tag = "Err"
               /\ result.err.kind = "NoEmptySlots"
               /\ result.err.serial = token.serial
          ELSE /\ pc = "manage"
               /\ result.tag = "Pending"
               /\ b_slot.tag = "Some"
               /\ \E i \in free :
                    /\ b_slot.val = USABLE_SLOTS[i]
                    /\ \A j \in 1..(i - 1) : j \notin free

C1_Witness ==
    /\ builder.slot.tag = "None"
    /\ pc = "manage"
    /\ token.slots[USABLE_SLOTS[1]].cert.tag = "Some"
    /\ token.slots[USABLE_SLOTS[2]].cert.tag = "None"
    /\ b_slot = Some(USABLE_SLOTS[2])

\* C2: with a requested slot, allocation returns that very slot when force is
\* set (the token is not even asked) or when the listing does not hold the
\* slot; without force and with the slot in the listing, build has returned
\* SlotIsNotEmpty naming the slot.
C2_RequestedSlot ==
    (/\ builder.slot.tag = "Some"
     /\ pc # "allocate"
     /\ \A i \in 1..Len(TokenCmds) : TokenCmds[i].cmd = "Key::list")
    => IF builder.force
       THEN /\ pc = "manage"
            /\ b_slot = builder.slot
            /\ TokenCmds = <<>>
       ELSE /\ Len(TokenCmds) = 1
            /\ TokenCmds[1].ok =>
                 IF token.slots[builder.slot.val].cert.tag = "Some"
                 THEN /\ pc = "done"
                      /\ result.tag = "Err"
                      /\ result.err.kind = "SlotIsNotEmpty"
                      /\ result.err.slot = builder.slot.val
                 ELSE /\ pc = "manage"
                      /\ result.tag = "Pending"
                      /\ b_slot = builder.slot

C2_Witness ==
    /\ builder.slot.tag = "Some"
    /\ builder.force
    /\ token.slots[builder.slot.val].cert.tag = "Some"
    /\ pc = "manage"
    /\ b_slot = builder.slot

\* C3: the token commands come in a fixed order: key::manage succeeds before
\* piv::generate is sent, piv::generate succeeds before generate_self_signed
\* is sent, and under the pin policy Always the command right before
\* generate_self_signed is a successful verify_pin, sent after piv::generate.
C3_CommandOrder ==
    LET T == TokenCmds
        Before(i, name) == \E j \in 1..(i - 1) : T[j].cmd = name /\ T[j].ok
    IN \A i \in 1..Len(T) :
         /\ T[i].cmd = "piv::generate" => Before(i, "key::manage")
         /\ T[i].cmd = "generate_self_signed" => Before(i, "piv::generate")
         /\ (T[i].cmd = "generate_self_signed" /\ resolved_pin = "Always")
            => /\ i > 2
               /\ T[i - 1].cmd = "verify_pin"
               /\ T[i - 1].ok
               /\ Before(i - 1, "piv::generate")
         /\ T[i].cmd = "verify_pin" => Before(i, "piv::generate")

C3_Witness ==
    /\ pc = "done"
    /\ result.tag = "Ok"
    /\ resolved_pin = "Always"
    /\ Len(TokenCmds) = 5

\* C4: under the pin policy Always the certificate is asked for only after
\* the user was prompted for the PIN and the token verified it, although
\* key::manage had succeeded; when that verification fails, build has
\* returned the error of verify_pin, no certificate was asked for and the
\* slot holds no certificate of the new key.  Under another pin policy there
\* is no PIN prompt and no verify_pin.
C4_PinAgain ==
    LET Sent(name) == \E i \in 1..Len(trace) : trace[i].cmd = name
        Done(name) == \E i \in 1..Len(trace) : trace[i].cmd = name /\ trace[i].ok
        Failed(name) ==
            \E i \in 1..Len(trace) : trace[i].cmd = name /\ ~trace[i].ok
    IN /\ (resolved_pin = "Always" /\ Sent("generate_self_signed"))
          => /\ Done("key::manage")
             /\ Done("plugin-enter-pin")
             /\ Done("verify_pin")
       /\ Failed("verify_pin")
          => /\ pc = "done"
             /\ result.tag = "Err"
             /\ result.err = Propagated("verify_pin")
             /\ ~Sent("generate_self_signed")
             /\ LET cert == token.slots[b_slot.val].cert
                IN cert.tag = "Some" => cert.val.spki # b_generated.val
       /\ resolved_pin # "Always"
          => ~Sent("plugin-enter-pin") /\ ~Sent("verify_pin")

C4_Witness ==
    /\ resolved_pin = "Always"
    /\ pc = "done"
    /\ result.tag = "Err"
    /\ trace[Len(trace)] = TokenCmd("verify_pin", None, FALSE)
    /\ \E i \in 1..Len(trace) : trace[i].cmd = "key::manage" /\ trace[i].ok

\* C5: a step that fails is the last thing build does: build has returned an
\* error; an allocation error is returned with nothing sent after the
\* listing; and an identity is returned only when every command of the whole
\* sequence succeeded.
C5_FailureAborts ==
    LET T == TokenCmds
        Canon == (IF ListsKeys(builder) THEN <<"Key::list">> ELSE <<>>)
                 \o <<"key::manage", "piv::generate">>
                 \o (IF resolved_pin = "Always" THEN <<"verify_pin">> ELSE <<>>)
                 \o <<"generate_self_signed">>
    IN /\ \A i \in 1..Len(trace) :
            ~trace[i].ok => /\ i = Len(trace)
                            /\ pc = "done"
                            /\ result.tag = "Err"
       /\ pc = "done" <=> result.tag # "Pending"
       /\ result.tag \in {"Pending", "Ok", "Err"}
       /\ (result.tag = "Err"
           /\ result.err.kind \in {"SlotIsNotEmpty", "NoEmptySlots"})
          => /\ Len(T) = 1
             /\ T[1].cmd = "Key::list"
       /\ (result.tag = "Err" /\ result.err.kind = "Propagated")
          => /\ trace # <<>>
             /\ ~trace[Len(trace)].ok
             /\ trace[Len(trace)].to = "token"
                => trace[Len(trace)].cmd = result.err.from
       /\ result.tag = "Ok"
          => /\ \A i \in 1..Len(trace) : trace[i].ok
             /\ [i \in 1..Len(T) |-> T[i].cmd] = Canon

C5_Witness ==
    /\ pc = "done"
    /\ result.tag = "Err"
    /\ result.err = Propagated("piv::generate")
    /\ token.slots[b_slot.val].cert.tag = "None"

\* C6: for every pin and touch policy, the extension the builder embeds
\* decodes to exactly that pair: the metadata build returns, and the decoding
\* of the certificate now in the slot, give Some(pin policy) and
\* Some(touch policy).
C6_PolicyRoundTrip ==
    result.tag = "Ok"
    => /\ resolved_pin \in PinPolicies
       /\ resolved_touch \in TouchPolicies
       /\ result.val.metadata.pin_policy = Some(resolved_pin)
       /\ result.val.metadata.touch_policy = Some(resolved_touch)
       /\ policies(token.slots[b_slot.val].cert.val)
          = <<Some(resolved_pin), Some(resolved_touch)>>

C6_Witness ==
    /\ result.tag = "Ok"
    /\ builder.pin_policy = Some("Never")
    /\ builder.touch_policy = Some("Cached")
    /\ result.val.metadata.touch_policy = Some("Cached")

\* C7: when the policy extension of the certificate that is decoded (the
\* certificate itself when self-issued, the attestation otherwise) is absent,
\* occurs twice, or has fewer than 2 bytes, extract still returns a record,
\* and both its policies are None.
C7_AnomalyIsUnknown ==
    (xout.called /\ xout.result.tag = "Some")
    => LET decoded == IF xout.cmds = <<>> THEN xcert
                      ELSE IF xattest.tag = "Ok" THEN xattest.val ELSE Garbage
           hits == IF decoded.der = "x509"
                   THEN {i \in 1..Len(decoded.exts) :
                           decoded.exts[i].oid = POLICY_EXTENSION_OID}
                   ELSE {}
           anomaly == \/ Cardinality(hits) # 1
                      \/ \E i \in hits : Len(decoded.exts[i].value) < 2
       IN anomaly => /\ xout.result.val.pin_policy = None
                     /\ xout.result.val.touch_policy = None

C7_Witness ==
    /\ xout.called
    /\ xout.result.tag = "Some"
    /\ xout.cmds = <<>>
    /\ xcert.exts = <<PolicyExt(<<1, 2>>), PolicyExt(<<2, 2>>)>>
    /\ xout.result.val.pin_policy = None

\* C8: slot_to_ui of a usable slot is its 1-based position in USABLE_SLOTS,
\* and ui_to_slot of that number gives the slot back.
C8_SlotRoundTrip ==
    /\ mapper_out.fn = "slot_to_ui"
       => /\ mapper_out.res.tag = "Ok"
          /\ mapper_out.res.val \in 1..NumSlots
          /\ USABLE_SLOTS[mapper_out.res.val] = mapper_out.arg
          /\ ui_in = mapper_out.res.val
    /\ (mapper_out.fn = "ui_to_slot" /\ mapper_out.src.tag = "Some")
       => mapper_out.res = Ok(mapper_out.src.val)

C8_Witness ==
    /\ mapper_out.fn = "ui_to_slot"
    /\ mapper_out.src = Some(USABLE_SLOTS[NumSlots])
    /\ mapper_out.arg = NumSlots
    /\ mapper_out.res = Ok(USABLE_SLOTS[NumSlots])

\* C9: ui_to_slot of a u8 outside 1..len, 0 included, returns InvalidSlot of
\* that number.
C9_InvalidSlot ==
    (/\ mapper_out.fn = "ui_to_slot"
     /\ (mapper_out.arg = 0 \/ mapper_out.arg > Len(USABLE_SLOTS)))
    => /\ mapper_out.res.tag = "Err"
       /\ mapper_out.res.err = [kind |-> "InvalidSlot", n |-> mapper_out.arg]

\* C10: a certificate that parses and whose Organization is absent or is not
\* BINARY_NAME gives None when extract is called with all = FALSE.
C10_ForeignFiltered ==
    (/\ xout.called
     /\ ~xall
     /\ xcert.der = "x509"
     /\ \/ xcert.org = <<>>
        \/ ~xcert.org[1].utf8
        \/ xcert.org[1].str # BINARY_NAME)
    => xout.result = None

C10_Witness ==
    /\ xout.called
    /\ ~xall
    /\ xcert.der = "x509"
    /\ xcert.org = <<Attr(<<"other">>), Attr(BINARY_NAME)>>
    /\ xout.result = None

\* C11: a certificate that parses and is not self-issued, extracted with
\* all = TRUE, always gives a Metadata: its name is the whole subject, the
\* attestation is asked for, and its policies are those decoded from the
\* attestation certificate's extension, whatever the certificate's own
\* extension says; when the attestation fails or does not parse the two
\* policies are None.
C11_ForeignAttested ==
    (/\ xout.called
     /\ xall
     /\ xcert.der = "x509"
     /\ \/ xcert.org = <<>>
        \/ ~xcert.org[1].utf8
        \/ xcert.org[1].str # BINARY_NAME)
    => /\ xout.result.tag = "Some"
       /\ xout.result.val.name = SubjectToString(xcert)
       /\ xout.cmds = <<"attest">>
       /\ <<xout.result.val.pin_policy, xout.result.val.touch_policy>>
            = IF xattest.tag = "Ok" /\ xattest.val.der = "x509"
              THEN policies(xattest.val)
              ELSE <<None, None>>

C11_Witness ==
    /\ xout.called
    /\ xall
    /\ xcert.der = "x509"
    /\ xcert.org = <<Attr(<<"other">>), Attr(BINARY_NAME)>>
    /\ xcert.exts = <<PolicyExt(<<1, 1>>)>>
    /\ xattest.tag = "Ok"
    /\ xattest.val.exts = <<PolicyExt(<<3, 3>>)>>
    /\ xout.result.tag = "Some"
    /\ xout.result.val.pin_policy = Some("Always")
    /\ xout.result.val.touch_policy = Some("Cached")

\* C12: on a token without keys, a build with no slot, no policies and no
\* name that succeeds has taken the first usable slot, has generated the key
\* and embedded the extension with PIN policy Once and touch policy Always,
\* has named the certificate "age identity <hex of the tag of the stub>", and
\* returns a Metadata with that name, Some(Once) and Some(Always).
C12_Defaults ==
    (/\ \A s \in Slots : token0.slots[s] = EmptySlot
     /\ builder.slot = None
     /\ builder.name = None
     /\ builder.pin_policy = None
     /\ builder.touch_policy = None
     /\ result.tag = "Ok")
    => LET first == USABLE_SLOTS[1]
           held == token.slots[first]
           m == result.val.metadata
           name == <<"age identity ", "hex", result.val.stub.tag[2]>>
       IN /\ b_slot = Some(first)
          /\ result.val.stub.slot = first
          /\ held.key.tag = "Some"
          /\ held.key.val.pin_policy = "Once"
          /\ held.key.val.touch_policy = "Always"
          /\ held.cert.tag = "Some"
          /\ held.cert.val.cn = <<Attr(name)>>
          /\ held.cert.val.exts
               = <<[oid |-> POLICY_EXTENSION_OID, value |-> <<2, 2>>]>>
          /\ result.val.stub.tag[2] = held.key.val.id
          /\ m.slot = first
          /\ m.name = name
          /\ m.pin_policy = Some("Once")
          /\ m.touch_policy = Some("Always")

C12_Witness ==
    /\ \A s \in Slots : token0.slots[s] = EmptySlot
    /\ builder = IdentityBuilder_new(None)
    /\ result.tag = "Ok"
    /\ result.val.metadata.name = <<"age identity ", "hex", "new">>
    /\ token.slots[USABLE_SLOTS[1]].cert.tag = "Some"
    /\ \A i \in 2..NumSlots : token.slots[USABLE_SLOTS[i]] = EmptySlot

\* C13: when build has returned SlotIsNotEmpty or NoEmptySlots, the only
\* command sent to the token is the listing of its keys (no unlock of the
\* management key, no key generation, no PIN verification, no certificate),
\* nothing was shown or asked of the user, and every slot holds what it held
\* when build was called.
C13_AllocationFrame ==
    (/\ result.tag = "Err"
     /\ result.err.kind \in {"SlotIsNotEmpty", "NoEmptySlots"})
    => /\ token = token0
       /\ trace = <<TokenCmd("Key::list", None, TRUE)>>
       /\ b_slot = None
       /\ b_generated = None

C13_Witness ==
    /\ result = Err(SlotIsNotEmpty(USABLE_SLOTS[2]))
    /\ builder.slot = Some(USABLE_SLOTS[2])
    /\ token0.slots[USABLE_SLOTS[2]].cert.tag = "Some"
    /\ token = token0

\* C14: when a second provisioning attempt has occupied the allocated slot
\* after the allocation and before the key generation, piv::generate fails
\* and build returns the token's error; and two builds without force, one
\* running between the statements of the other, never both succeed in the
\* same slot.
C14_RaceAborts ==
    /\ (/\ rival.tag = "Some"
        /\ rival.val.at \in {"manage", "generate"}
        /\ rival.val.result.tag = "Ok"
        /\ b_slot = Some(rival.val.result.val)
        /\ \E i \in 1..Len(TokenCmds) : TokenCmds[i].cmd = "piv::generate")
       => /\ result = Err(Propagated("piv::generate"))
          /\ \A i \in 1..Len(TokenCmds) :
               TokenCmds[i].cmd = "piv::generate" => ~TokenCmds[i].ok
    /\ ~(/\ rival.tag = "Some"
         /\ rival.val.at \notin {"allocate", "done"}
         /\ rival.val.result.tag = "Ok"
         /\ result.tag = "Ok"
         /\ b_slot = Some(rival.val.result.val))

\* What the slot holds once a build failed after generating its key: the new
\* key, and the certificate object it held before.
C15_Interrupted ==
    (result.tag = "Err" /\ b_generated.tag = "Some")
    => /\ token.slots[b_slot.val].key.tag = "Some"
       /\ token.slots[b_slot.val].key.val.id = b_generated.val
       /\ token.slots[b_slot.val].cert = token0.slots[b_slot.val].cert

\* The build asks for a slot that holds a key and no certificate.
C15_KeyOnly ==
    /\ builder.slot.tag = "Some"
    /\ token0.slots[builder.slot.val].key.tag = "Some"
    /\ token0.slots[builder.slot.val].cert.tag = "None"

\* The build is over and every step of it succeeded.
C15_StepsSucceeded ==
    /\ pc = "done"
    /\ \A i \in 1..Len(trace) : trace[i].ok

\* The slot asked for holds the key of this build and a certificate over it.
C15_Recovered ==
    /\ result.tag = "Ok"
    /\ token.slots[builder.slot.val].key.tag = "Some"
    /\ token.slots[builder.slot.val].key.val.id = b_generated.val
    /\ token.slots[builder.slot.val].key # token0.slots[builder.slot.val].key
    /\ token.slots[builder.slot.val].cert.tag = "Some"
    /\ token.slots[builder.slot.val].cert.val.spki = b_generated.val

C16_AttestOnlyForeign ==
    xout.called
    => LET foreign == /\ xcert.der = "x509"
                      /\ \/ xcert.org = <<>>
                         \/ ~xcert.org[1].utf8
                         \/ xcert.org[1].str # BINARY_NAME
       IN /\ xout.cmds = IF foreign /\ xall THEN <<"attest">> ELSE <<>>
          /\ (xcert.der = "x509" /\ ~foreign)
             => /\ xout.result.tag = "Some"
                /\ <<xout.result.val.pin_policy, xout.result.val.touch_policy>>
                     = policies(xcert)
          /\ (foreign /\ ~xall) => xout.result = None

C16_Witness ==
    /\ xout.called
    /\ xall
    /\ xcert.der = "x509"
    /\ xcert.org = <<Attr(BINARY_NAME)>>
    /\ xcert.exts = <<PolicyExt(<<3, 2>>)>>
    /\ xattest.tag = "Ok"
    /\ xattest.val.exts = <<PolicyExt(<<1, 1>>)>>
    /\ xout.cmds = <<>>
    /\ xout.result.tag = "Some"
    /\ xout.result.val.pin_policy = Some("Always")
    /\ xout.result.val.touch_policy = Some("Always")

\* The certificate extract decodes the policies from, when it decodes any:
\* the certificate itself when self-issued, the attestation otherwise.
C17_Decoded ==
    IF xcert.der = "x509" /\ xcert.org # <<>> /\ xcert.org[1].utf8
       /\ xcert.org[1].str = BINARY_NAME
    THEN Some(xcert)
    ELSE IF xcert.der = "x509" /\ xall /\ xattest.tag = "Ok"
            /\ xattest.val.der = "x509"
         THEN Some(xattest.val)
         ELSE None

\* The places of the policy extension in the extensions of that certificate.
C17_PolicyAt ==
    {i \in 1..Len(C17_Decoded.val.exts) :
       C17_Decoded.val.exts[i].oid = POLICY_EXTENSION_OID}

\* C17: when the policy extension occurs once and holds bytes b0, b1, ...,
\* the PIN policy is Never, Once, Always for b0 = 1, 2, 3 and None for any
\* other b0, whatever b1 is; the touch policy is Never, Always, Cached for
\* b1 = 1, 2, 3 and None for any other b1, whatever b0 is.
C17_ByteWise ==
    (/\ xout.called
     /\ C17_Decoded.tag = "Some"
     /\ Cardinality(C17_PolicyAt) = 1
     /\ \A i \in C17_PolicyAt : Len(C17_Decoded.val.exts[i].value) >= 2)
    => \A i \in C17_PolicyAt :
         LET b0 == C17_Decoded.val.exts[i].value[1]
             b1 == C17_Decoded.val.exts[i].value[2]
         IN /\ xout.result.tag = "Some"
            /\ xout.result.val.pin_policy
                 = (CASE b0 = 1 -> Some("Never")
                      [] b0 = 2 -> Some("Once")
                      [] b0 = 3 -> Some("Always")
                      [] OTHER -> None)
            /\ xout.result.val.touch_policy
                 = (CASE b1 = 1 -> Some("Never")
                      [] b1 = 2 -> Some("Always")
                      [] b1 = 3 -> Some("Cached")
                      [] OTHER -> None)

C17_Witness ==
    /\ xout.called
    /\ xcert.der = "x509"
    /\ xcert.org = <<Attr(BINARY_NAME)>>
    /\ xcert.exts = <<PolicyExt(<<0, 3>>)>>
    /\ xout.result.tag = "Some"
    /\ xout.result.val.pin_policy = None
    /\ xout.result.val.touch_policy = Some("Cached")

\* C18: in a sequence of builds without force, no build sends piv::generate
\* or generate_self_signed for a slot the token listed when that build was
\* called, and every slot some build of the sequence found listed holds the
\* key and the certificate it held then.
C18_OccupiedUntouched ==
    /\ \A i \in 1..Len(TokenCmds) :
         TokenCmds[i].cmd \in {"piv::generate", "generate_self_signed"}
         => ~AnyKeyIn(Key_list(token0), TokenCmds[i].slot.val)
    /\ \A s \in Slots :
         kept0[s].tag = "Some" => token.slots[s] = kept0[s].val

C18_Witness ==
    /\ nbuilds = 1
    /\ result.tag = "Ok"
    /\ kept0[USABLE_SLOTS[1]].tag = "Some"
    /\ kept0[USABLE_SLOTS[2]].tag = "Some"
    /\ token.slots[USABLE_SLOTS[1]].key.val.id = "1"
    /\ token.slots[USABLE_SLOTS[2]].key.val.id = NewKeyId(0)
    /\ token.slots[USABLE_SLOTS[3]].key.val.id = NewKeyId(1)
    /\ token.slots[USABLE_SLOTS[3]].cert.tag = "Some"

\* C19: when build has returned Ok, the Stub and the Metadata name the serial
\* of the token and the allocated slot (the requested one, or the first slot
\* the token did not list); that slot holds the key this build generated and
\* a certificate over that key whose CommonName is the name of the Metadata
\* and whose policy extension encodes the policies of the Metadata; every
\* other slot holds what it held when build was called.
C19_SuccessConsistent ==
    result.tag = "Ok"
    => LET stub == result.val.stub
           m == result.val.metadata
           held == token.slots[b_slot.val]
           free == {i \in 1..NumSlots :
                      token0.slots[USABLE_SLOTS[i]].cert.tag = "None"}
       IN /\ b_slot.tag = "Some"
          /\ IF builder.slot.tag = "Some" THEN b_slot = builder.slot
             ELSE /\ free # {}
                  /\ \A j \in free :
                       Position(USABLE_SLOTS, b_slot.val).val + 1 <= j
                  /\ Position(USABLE_SLOTS, b_slot.val).val + 1 \in free
          /\ stub.slot = b_slot.val
          /\ m.slot = b_slot.val
          /\ stub.serial = token0.serial
          /\ m.serial = token0.serial
          /\ token.serial = token0.serial
          /\ \E i \in 1..Len(TokenCmds) :
               TokenCmds[i] = TokenCmd("piv::generate", b_slot, TRUE)
          /\ held.key.tag = "Some"
          /\ held.key.val.id = b_generated.val
          /\ stub.tag = <<"tag", held.key.val.id>>
          /\ held.cert.tag = "Some"
          /\ held.cert.val.spki = held.key.val.id
          /\ held.cert.val.cn = <<Attr(m.name)>>
          /\ m.pin_policy = Some(held.key.val.pin_policy)
          /\ m.touch_policy = Some(held.key.val.touch_policy)
          /\ held.cert.val.exts
               = <<[oid |-> POLICY_EXTENSION_OID,
                    value |-> <<PinPolicyByte(m.pin_policy.val),
                                TouchPolicyByte(m.touch_policy.val)>>]>>
          /\ \A s \in Slots \ {b_slot.val} : token.slots[s] = token0.slots[s]

C19_Witness ==
    /\ result.tag = "Ok"
    /\ builder.slot = Some(USABLE_SLOTS[2])
    /\ builder.force
    /\ builder.name = Some(<<"bob">>)
    /\ token0.slots[USABLE_SLOTS[1]].cert.tag = "Some"
    /\ token0.slots[USABLE_SLOTS[2]].cert.tag = "Some"
    /\ result.val.metadata.slot = USABLE_SLOTS[2]
    /\ result.val.metadata.name = <<"bob">>
    /\ result.val.metadata.pin_policy = Some("Never")
    /\ result.val.metadata.touch_policy = Some("Cached")
    /\ token.slots[USABLE_SLOTS[2]].key.val.id = "new"
    /\ token.slots[USABLE_SLOTS[1]] = token0.slots[USABLE_SLOTS[1]]

\* C20: when the policy extension occurs once and its value is longer than
\* two bytes, the policies are decoded all the same, and they are those a
\* certificate gives whose extension holds the first two bytes alone.
C20_LongValue ==
    (/\ xout.called
     /\ C17_Decoded.tag = "Some"
     /\ Cardinality(C17_PolicyAt) = 1
     /\ \A i \in C17_PolicyAt : Len(C17_Decoded.val.exts[i].value) > 2)
    => \A i \in C17_PolicyAt :
         LET value == C17_Decoded.val.exts[i].value
             short == [C17_Decoded.val EXCEPT
                         !.exts = <<PolicyExt(SubSeq(value, 1, 2))>>]
         IN /\ xout.result.tag = "Some"
            /\ <<xout.result.val.pin_policy, xout.result.val.touch_policy>>
                 = policies(short)
            /\ (value[1] \in 1..3) <=> xout.result.val.pin_policy.tag = "Some"
            /\ (value[2] \in 1..3) <=> xout.result.val.touch_policy.tag = "Some"

C20_Witness ==
    /\ xout.called
    /\ xcert.der = "x509"
    /\ xcert.org = <<Attr(BINARY_NAME)>>
    /\ xcert.exts = <<PolicyExt(<<2, 3, 4>>)>>
    /\ xout.result.tag = "Some"
    /\ xout.result.val.pin_policy = Some("Once")
    /\ xout.result.val.touch_policy = Some("Cached")

====
